---------------------------- MODULE Spec2Model ----------------------------
(***************************************************************************)
(* EasyTerm (src/easyterm/easyterm.py): command-line resolution, window    *)
(* construction, child spawn, command injection and title synchronisation. *)
(*                                                                         *)
(* Text that the program parses is a sequence of one-symbol strings        *)
(* (<<"a", ":", "b">> is "a:b"); text that it only stores or compares      *)
(* (titles, the working directory) is a plain string.                      *)
(***************************************************************************)
EXTENDS Integers, Sequences, FiniteSets, TLC

-----------------------------------------------------------------------------
(* Bounds of the model *)

MaxActLen == 5       \* longest --actions value, in characters
MaxPalLen == 4       \* longest --palette value, in symbols
MaxCmdLines == 2     \* command lines handled by one application
MaxClicks == 2       \* clicks on action buttons

-----------------------------------------------------------------------------
(* Program constants *)

PyNone == "<None>"
CONF_NAME == "EasyTerm"
CONF_DEF_CWD == "<os.getcwd()>"
CONF_DEF_CMD == << <<"/bin/bash">> >>
DefaultIcon == <<"system-run-symbolic">>

\* Gdk.RGBA channels, in tenths
RGBA(r, g, b, a) == [red |-> r, green |-> g, blue |-> b, alpha |-> a]
CONF_FG == RGBA(8, 8, 8, 10)
CONF_BG == RGBA(1, 1, 1, 10)
\* Gdk.RGBA(): a zero-filled boxed struct
NewRGBA == RGBA(0, 0, 0, 0)

\* vte spawn_async is given no completion callback
SpawnCallback == PyNone

-----------------------------------------------------------------------------
(* Python string operations *)

IsSpace(c) == c = " "

RECURSIVE SplitFrom(_, _, _, _, _)
SplitFrom(s, sep, i, cur, acc) ==
    IF i > Len(s) THEN Append(acc, cur)
    ELSE IF s[i] = sep
         THEN SplitFrom(s, sep, i + 1, <<>>, Append(acc, cur))
         ELSE SplitFrom(s, sep, i + 1, Append(cur, s[i]), acc)

\* str.split(sep): "" splits into [""]
Split(s, sep) == SplitFrom(s, sep, 1, <<>>, <<>>)

RECURSIVE LStrip(_)
LStrip(s) == IF s # <<>> /\ IsSpace(Head(s)) THEN LStrip(Tail(s)) ELSE s

RECURSIVE RStrip(_)
RStrip(s) ==
    IF s # <<>> /\ IsSpace(s[Len(s)]) THEN RStrip(SubSeq(s, 1, Len(s) - 1)) ELSE s

\* strip() that forgets the trailing whitespace
StripLeftOnly(s) == LStrip(s)

\* str.strip()
Strip(s) == RStrip(LStrip(s))

\* shlex.split(s) over whitespace, single quotes and plain characters:
\* the POSIX lexer's states are "ws" (between words), "word" and "quote".
RECURSIVE ShlexFrom(_, _, _, _, _)
ShlexFrom(s, i, state, tok, acc) ==
    IF i > Len(s)
    THEN CASE state = "quote" -> [ok |-> FALSE, tokens |-> <<>>]
           [] state = "word"  -> [ok |-> TRUE, tokens |-> Append(acc, tok)]
           [] OTHER           -> [ok |-> TRUE, tokens |-> acc]
    ELSE LET c == s[i] IN
         CASE state = "ws" ->
                IF IsSpace(c) THEN ShlexFrom(s, i + 1, "ws", <<>>, acc)
                ELSE IF c = "'" THEN ShlexFrom(s, i + 1, "quote", <<>>, acc)
                ELSE ShlexFrom(s, i + 1, "word", <<c>>, acc)
           [] state = "word" ->
                IF IsSpace(c) THEN ShlexFrom(s, i + 1, "ws", <<>>, Append(acc, tok))
                ELSE IF c = "'" THEN ShlexFrom(s, i + 1, "quote", tok, acc)
                ELSE ShlexFrom(s, i + 1, "word", Append(tok, c), acc)
           [] OTHER ->
                IF c = "'" THEN ShlexFrom(s, i + 1, "word", tok, acc)
                ELSE ShlexFrom(s, i + 1, "quote", Append(tok, c), acc)

ShlexSplit(s) == ShlexFrom(s, 1, "ws", <<>>, <<>>)

\* Gdk.RGBA.parse(token) on a fresh Gdk.RGBA(): a recognised literal sets the
\* channels; anything else leaves the zero-filled struct untouched.
RGBAParse(token) ==
    IF token = <<"#fff">> THEN RGBA(10, 10, 10, 10)
    ELSE IF token = <<"#000">> THEN RGBA(0, 0, 0, 10)
    ELSE NewRGBA

-----------------------------------------------------------------------------
(* Command-line options: an option is [has |-> contains(name), val |-> its string] *)

Absent(v) == [has |-> FALSE, val |-> v]
Given(v) == [has |-> TRUE, val |-> v]

NoOptions ==
    [cwd |-> Absent(""), command |-> Absent(<<>>), env |-> Absent(<<>>),
     actions |-> Absent(<<>>), light_theme |-> FALSE, palette |-> Absent(<<>>)]

\* the loop over raw.split(",") of do_command_line, from descriptor i on
RECURSIVE ParseSpecs(_, _, _)
ParseSpecs(specs, i, acc) ==
    IF i > Len(specs) THEN acc
    ELSE LET spec == Strip(specs[i])
             parts == Split(spec, ":")
         IN  IF spec = <<>> THEN ParseSpecs(specs, i + 1, acc)
             ELSE IF Len(parts) = 3
                  THEN ParseSpecs(specs, i + 1,
                         Append(acc, [tooltip |-> parts[1], icon |-> parts[2],
                                      command |-> parts[3]]))
             ELSE IF Len(parts) = 2
                  THEN ParseSpecs(specs, i + 1,
                         Append(acc, [tooltip |-> parts[1], icon |-> DefaultIcon,
                                      command |-> parts[2]]))
             ELSE ParseSpecs(specs, i + 1, acc)

ParseActions(raw) == ParseSpecs(Split(raw, ","), 1, <<>>)

ParseEnv(env_str) == IF env_str # <<>> THEN Split(env_str, " ") ELSE <<>>

ParsePalette(palette_str) ==
    LET palette_tokens == Split(palette_str, " ") IN
    IF Len(palette_tokens) >= 2
    THEN LET back == RGBAParse(palette_tokens[1])
             fore == RGBAParse(palette_tokens[2])
         IN  <<back, fore>>
    ELSE <<>>

\* the locals of do_command_line when it reaches the assignments; ok is FALSE
\* when shlex.split raised and the handler was left through the exception
ParseOptions(o) ==
    LET split == IF o.command.has THEN ShlexSplit(o.command.val)
                 ELSE [ok |-> TRUE, tokens |-> <<>>]
    IN  [ok |-> split.ok,
         cwd |-> IF o.cwd.has THEN o.cwd.val ELSE "",
         command |-> split.tokens,
         env |-> IF o.env.has THEN ParseEnv(o.env.val) ELSE <<>>,
         actions |-> IF o.actions.has THEN ParseActions(o.actions.val) ELSE <<>>,
         dark_theme |-> ~o.light_theme,
         palette |-> IF o.palette.has THEN ParsePalette(o.palette.val) ELSE <<>>]

-----------------------------------------------------------------------------
(* State *)

VARIABLES
    cwd, command, env, actions, dark_theme, palette,  \* EasyTerm.self.*
    n_windows,        \* windows of the application (props.active_window is set iff > 0)
    n_spawned,        \* calls of spawn_async so far
    title_label,      \* HeaderBar.title_label
    buttons,          \* HeaderBar.actions_box, one record per button
    term_colors,      \* colours given to Terminal.set_colors
    color_scheme,     \* Adw.StyleManager colour scheme
    spawn_args,       \* cwd, argv and envv given to spawn_async
    child,            \* "none", "spawning", "running", "failed", "exited"
    window_title,     \* Vte.Terminal.get_window_title()
    exit_status,      \* status delivered with child-exited, -1 before
    child_input,      \* bytes written to the child's PTY
    spawn_error_reported, \* a spawn failure reached the program's code
    running,          \* the application's main loop runs
    n_cmdlines,       \* command lines handled
    n_clicks,         \* button clicks handled
    argv,             \* options behind the current self.* fields
    win_argv,         \* options behind the fields the window was built from
    clicked_when      \* value of child when the last click was handled

appVars == <<cwd, command, env, actions, dark_theme, palette>>
winVars == <<n_windows, n_spawned, title_label, buttons, term_colors, color_scheme,
             spawn_args, child, window_title, exit_status, child_input,
             spawn_error_reported, win_argv, clicked_when>>
vars == <<appVars, winVars, running, n_cmdlines, n_clicks, argv>>

Fields ==
    [cwd |-> cwd, command |-> command, env |-> env, actions |-> actions,
     dark_theme |-> dark_theme, palette |-> palette]

\* EasyTerm() of __main__: no window yet
Init ==
    /\ cwd = "" /\ command = <<>> /\ env = <<>> /\ actions = <<>>
    /\ dark_theme = TRUE /\ palette = <<>>
    /\ n_windows = 0 /\ n_spawned = 0
    /\ title_label = PyNone /\ buttons = <<>>
    /\ term_colors = [foreground |-> NewRGBA, background |-> NewRGBA]
    /\ color_scheme = "DEFAULT"
    /\ spawn_args = [cwd |-> "", command |-> <<>>, env |-> <<>>]
    /\ child = "none" /\ window_title = PyNone /\ exit_status = -1
    /\ child_input = <<>> /\ spawn_error_reported = FALSE
    /\ running = TRUE /\ n_cmdlines = 0 /\ n_clicks = 0
    /\ argv = NoOptions /\ win_argv = NoOptions /\ clicked_when = "none"

-----------------------------------------------------------------------------
(* Window construction *)

\* set_colors with the two palette entries exchanged
TerminalColorsSwapped(pal) ==
    IF Len(pal) < 2
    THEN [foreground |-> CONF_FG, background |-> CONF_BG]
    ELSE [foreground |-> pal[2], background |-> pal[1]]

\* Terminal.__init__: the colours handed to set_colors
TerminalColors(pal) ==
    IF Len(pal) < 2
    THEN [foreground |-> CONF_FG, background |-> CONF_BG]
    ELSE [foreground |-> pal[1], background |-> pal[2]]

\* HeaderBar.build_actions: one button per action, in order
BuildActions(acts) ==
    [i \in 1..Len(acts) |->
        [tooltip |-> acts[i].tooltip, icon |-> acts[i].icon, command |-> acts[i].command]]

\* spawn_async given the constructor arguments as they came
SpawnArgsNoDefault(c, cmd, e) == [cwd |-> c, command |-> cmd, env |-> e]

\* MainWindow.__init__: defaults applied before spawn_async
SpawnArgs(c, cmd, e) ==
    [cwd |-> IF c = "" THEN CONF_DEF_CWD ELSE c,
     command |-> IF cmd = <<>> THEN CONF_DEF_CMD ELSE cmd,
     env |-> e]

\* update_title without the fallback to CONF_NAME
UpdateTitleNoDefault(wt) == wt

\* MainWindow.update_title: the label shown for a terminal window title
UpdateTitle(wt) == IF wt # PyNone /\ wt # "" THEN wt ELSE CONF_NAME

\* MainWindow(application, cwd=f.cwd, ...) built from the fields f
MainWindowInit(f, opts) ==
    /\ n_windows' = n_windows + 1
    /\ term_colors' = TerminalColors(f.palette)
    /\ title_label' = CONF_NAME
    /\ color_scheme' = IF f.dark_theme THEN "FORCE_DARK" ELSE color_scheme
    /\ buttons' = BuildActions(f.actions)
    /\ spawn_args' = SpawnArgs(f.cwd, f.command, f.env)
    /\ n_spawned' = n_spawned + 1
    /\ child' = "spawning"
    /\ window_title' = PyNone
    /\ exit_status' = -1
    /\ child_input' = <<>>
    /\ spawn_error_reported' = FALSE
    /\ win_argv' = opts
    /\ clicked_when' = "none"

\* do_activate that builds a window on every activation
NeedsWindowAlways(n) == TRUE

\* do_activate: "if not win"
NeedsWindow(n) == n = 0

\* do_activate with self.* = f
Activate(f, opts) ==
    IF NeedsWindow(n_windows) THEN MainWindowInit(f, opts) ELSE UNCHANGED winVars

\* self.activate() called before self.palette is assigned
AssignFieldsLate(parsed, old) ==
    [cwd |-> parsed.cwd, command |-> parsed.command, env |-> parsed.env,
     actions |-> parsed.actions, dark_theme |-> parsed.dark_theme,
     palette |-> old.palette]

\* the self.* fields that self.activate() of do_command_line sees: all six
\* are assigned before it is called
AssignFields(parsed, old) ==
    [cwd |-> parsed.cwd, command |-> parsed.command, env |-> parsed.env,
     actions |-> parsed.actions, dark_theme |-> parsed.dark_theme,
     palette |-> parsed.palette]

-----------------------------------------------------------------------------
(* Handlers *)

\* EasyTerm.do_command_line, self.activate() included
DoCommandLine(o) ==
    /\ running
    /\ n_cmdlines' = n_cmdlines + 1
    /\ LET parsed == ParseOptions(o) IN
       IF ~parsed.ok
       THEN UNCHANGED <<appVars, winVars, argv>>
       ELSE /\ cwd' = parsed.cwd
            /\ command' = parsed.command
            /\ env' = parsed.env
            /\ actions' = parsed.actions
            /\ dark_theme' = parsed.dark_theme
            /\ palette' = parsed.palette
            /\ argv' = o
            /\ Activate(AssignFields(parsed, Fields), o)
    /\ UNCHANGED <<running, n_clicks>>

\* EasyTerm.do_activate, raised on its own
DoActivate ==
    /\ running
    /\ Activate(Fields, argv)
    /\ UNCHANGED <<appVars, running, n_cmdlines, n_clicks, argv>>

\* the spawn completes: the PTY is attached and the child watched
SpawnSucceeded ==
    /\ running /\ child = "spawning"
    /\ child' = "running"
    /\ UNCHANGED <<appVars, n_windows, n_spawned, title_label, buttons, term_colors,
                   color_scheme, spawn_args, window_title, exit_status, child_input,
                   spawn_error_reported, win_argv, clicked_when, running, n_cmdlines,
                   n_clicks, argv>>

\* the spawn fails: the error goes to the completion callback, which is None
SpawnFailed ==
    /\ running /\ child = "spawning"
    /\ child' = "failed"
    /\ spawn_error_reported' = (SpawnCallback # PyNone)
    /\ UNCHANGED <<appVars, n_windows, n_spawned, title_label, buttons, term_colors,
                   color_scheme, spawn_args, window_title, exit_status, child_input,
                   win_argv, clicked_when, running, n_cmdlines, n_clicks, argv>>

\* "window-title-changed" -> update_title
WindowTitleChanged(t) ==
    /\ running /\ child = "running"
    /\ window_title' = t
    /\ title_label' = UpdateTitle(t)
    /\ UNCHANGED <<appVars, n_windows, n_spawned, buttons, term_colors, color_scheme,
                   spawn_args, child, exit_status, child_input, spawn_error_reported,
                   win_argv, clicked_when, running, n_cmdlines, n_clicks, argv>>

\* "child-exited" -> update_title; the terminal keeps its window title
ChildExited(status) ==
    /\ running /\ child = "running"
    /\ child' = "exited"
    /\ exit_status' = status
    /\ title_label' = UpdateTitle(window_title)
    /\ UNCHANGED <<appVars, n_windows, n_spawned, buttons, term_colors, color_scheme,
                   spawn_args, window_title, child_input, spawn_error_reported,
                   win_argv, clicked_when, running, n_cmdlines, n_clicks, argv>>

\* run_command that feeds the command without the newline
RunCommandNoNewline(cmd) == cmd

\* Terminal.run_command: the bytes handed to feed_child
RunCommand(cmd) == cmd \o <<"\n">>

\* Vte feed_child: input goes to the PTY while one is attached, else nowhere
FeedChild(c, input, bytes) == IF c = "running" THEN input \o bytes ELSE input

\* a click on button i -> Terminal.run_command_btn
ClickAction(i) ==
    /\ running /\ n_windows > 0
    /\ i \in 1..Len(buttons)
    /\ n_clicks < MaxClicks
    /\ n_clicks' = n_clicks + 1
    /\ clicked_when' = child
    /\ child_input' = FeedChild(child, child_input, RunCommand(buttons[i].command))
    /\ UNCHANGED <<appVars, n_windows, n_spawned, title_label, buttons, term_colors,
                   color_scheme, spawn_args, child, window_title, exit_status,
                   spawn_error_reported, win_argv, running, n_cmdlines, argv>>

\* the window is closed: the application has no window left and run() returns
CloseRequest ==
    /\ running /\ n_windows > 0
    /\ n_windows' = 0
    /\ running' = FALSE
    /\ UNCHANGED <<appVars, n_spawned, title_label, buttons, term_colors, color_scheme,
                   spawn_args, child, window_title, exit_status, child_input,
                   spawn_error_reported, win_argv, clicked_when, n_cmdlines, n_clicks,
                   argv>>

-----------------------------------------------------------------------------
(* Inputs *)

Titles == {"", "build.sh", "vim"}
ExitCodes == {0, 1}

ActChars == {"a", "b", ":", ",", " "}
PalSymbols == {"#fff", "#000", "zz", " "}

SeqsUpTo(S, n) == UNION {[1..k -> S] : k \in 0..n}

Opt(V) == {Absent(<<>>)} \cup {Given(v) : v \in V}

\* command lines of the event-level specification
SmallOptions ==
    { NoOptions,
      [NoOptions EXCEPT !.actions = Given(<<"a", ":", "b", ",", "b", ":">>)],
      [NoOptions EXCEPT !.cwd = Given("/tmp"), !.light_theme = TRUE,
                        !.palette = Given(<<"#fff", " ", "#000">>)],
      [NoOptions EXCEPT !.command = Given(<<"a", " ", "'", "b", " ", "b", "'">>),
                        !.env = Given(<<"a", " ", "b">>)],
      [NoOptions EXCEPT !.command = Given(<<"'", "a">>)] }

\* every combination of a few values per option
ProductOptions ==
    [cwd : {Absent(""), Given(""), Given("/tmp")},
     command : Opt({<<>>, <<"a", " ", "b">>, <<"'", "a">>}),
     env : Opt({<<>>, <<"a", " ", "b">>}),
     actions : Opt({<<"a", ":", "b">>}),
     light_theme : BOOLEAN,
     palette : Opt({<<"#fff">>, <<"#000", " ", "#fff">>})]

\* every --actions value, every --palette value, up to the bounds
ActionsOptions ==
    {[NoOptions EXCEPT !.actions = Given(raw)] : raw \in SeqsUpTo(ActChars, MaxActLen)}
PaletteOptions ==
    {[NoOptions EXCEPT !.palette = Given(p)] : p \in SeqsUpTo(PalSymbols, MaxPalLen)}

CLIOptions == ProductOptions \cup ActionsOptions \cup PaletteOptions

-----------------------------------------------------------------------------
(* Specifications *)

\* a command line reaches the running application
CommandLine ==
    /\ n_cmdlines < MaxCmdLines
    /\ \E o \in SmallOptions : DoCommandLine(o)

\* the command line the process is started with
StartupCommandLine ==
    /\ n_cmdlines = 0
    /\ \E o \in CLIOptions : DoCommandLine(o)

TitleChanged == \E t \in Titles : WindowTitleChanged(t)
Exited == \E status \in ExitCodes : ChildExited(status)
Click == \E i \in 1..Len(buttons) : ClickAction(i)

Next ==
    \/ CommandLine
    \/ DoActivate
    \/ SpawnSucceeded
    \/ SpawnFailed
    \/ TitleChanged
    \/ Exited
    \/ Click
    \/ CloseRequest

Spec == Init /\ [][Next]_vars

\* one start of the program: its command line, the spawn, clicks
NextCLI ==
    \/ StartupCommandLine
    \/ SpawnSucceeded
    \/ Click

SpecCLI == Init /\ [][NextCLI]_vars

-----------------------------------------------------------------------------
(* Text read position by position, for stating what a parse must yield *)

Positions(s, sep) == {i \in 1..Len(s) : s[i] = sep}
MinOf(S) == CHOOSE x \in S : \A y \in S : x <= y
MaxOf(S) == CHOOSE x \in S : \A y \in S : x >= y

RECURSIVE KthOf(_, _)
KthOf(S, k) == IF k = 1 THEN MinOf(S) ELSE KthOf(S \ {MinOf(S)}, k - 1)

PieceCount(s, sep) == Cardinality(Positions(s, sep)) + 1

\* the k-th piece of s between separators
Piece(s, sep, k) ==
    LET P == Positions(s, sep)
        lo == IF k = 1 THEN 0 ELSE KthOf(P, k - 1)
        hi == IF k = Cardinality(P) + 1 THEN Len(s) + 1 ELSE KthOf(P, k)
    IN  SubSeq(s, lo + 1, hi - 1)

Trimmed(s) ==
    LET ink == {i \in 1..Len(s) : s[i] # " "} IN
    IF ink = {} THEN <<>> ELSE SubSeq(s, MinOf(ink), MaxOf(ink))

Descriptors(raw) == [k \in 1..PieceCount(raw, ",") |-> Trimmed(Piece(raw, ",", k))]
WellFormed(d) == PieceCount(d, ":") \in {2, 3}
RecordOf(d) ==
    IF PieceCount(d, ":") = 3
    THEN [tooltip |-> Piece(d, ":", 1), icon |-> Piece(d, ":", 2), command |-> Piece(d, ":", 3)]
    ELSE [tooltip |-> Piece(d, ":", 1), icon |-> DefaultIcon, command |-> Piece(d, ":", 2)]
ExpectedActions(raw) ==
    LET kept == SelectSeq(Descriptors(raw), WellFormed)
    IN  [k \in 1..Len(kept) |-> RecordOf(kept[k])]

Shown(wt) == IF wt = PyNone \/ wt = "" THEN CONF_NAME ELSE wt
DefaultColors == [foreground |-> CONF_FG, background |-> CONF_BG]

-----------------------------------------------------------------------------
(* Claims *)

\* C1: once child-exited has been handled the header shows the default name
\* "EasyTerm", whatever was shown before and whatever the exit status.
C1_ExitShowsDefault == child = "exited" => title_label = CONF_NAME

\* C2: the header starts with the default name; after a title-changed event
\* with title t it shows t when t is non-empty and the default name when t is
\* empty; nothing else is ever shown.
C2_TitleShown ==
    n_windows > 0 =>
        /\ child = "spawning" => title_label = CONF_NAME
        /\ child = "running" => title_label = Shown(window_title)
        /\ title_label \in {CONF_NAME} \cup (Titles \ {""})
C2_Witness ==
    n_windows > 0 /\ child = "running" /\ window_title = "build.sh"
    /\ title_label = "build.sh"

\* C3: the parsed action list holds, in descriptor order, one record per
\* comma-separated descriptor that after trimming has 3 fields (tooltip, icon,
\* command) or 2 fields (tooltip, command, default icon); every other
\* descriptor is dropped and leaves the others untouched.
C3_ActionsParsed == argv.actions.has => actions = ExpectedActions(argv.actions.val)
C3_Witness ==
    /\ argv.actions = Given(<<"a", ":", "b", ",", "a">>)
    /\ actions = <<[tooltip |-> <<"a">>, icon |-> DefaultIcon, command |-> <<"b">>]>>

\* C4: no parsed action and no header button has an empty command.
C4_NoEmptyCommand ==
    /\ \A i \in 1..Len(actions) : actions[i].command # <<>>
    /\ \A i \in 1..Len(buttons) : buttons[i].command # <<>>

C6_SpawnFailureReported == child = "failed" => spawn_error_reported

\* C7: an option that is absent leaves its field at the default when the
\* session is spawned (startup directory, default shell, empty environment,
\* no buttons, forced dark theme, built-in colours), whatever other options
\* are present; a present --cwd or --light-theme takes effect unchanged.
C7_Defaults ==
    n_windows > 0 =>
        /\ ~win_argv.cwd.has => spawn_args.cwd = CONF_DEF_CWD
        /\ ~win_argv.command.has => spawn_args.command = CONF_DEF_CMD
        /\ ~win_argv.env.has => spawn_args.env = <<>>
        /\ ~win_argv.actions.has => buttons = <<>>
        /\ ~win_argv.light_theme => color_scheme = "FORCE_DARK"
        /\ ~win_argv.palette.has => term_colors = DefaultColors
        /\ (win_argv.cwd.has /\ win_argv.cwd.val # "") => spawn_args.cwd = win_argv.cwd.val
        /\ win_argv.light_theme => color_scheme = "DEFAULT"
C7_Witness ==
    /\ n_windows > 0 /\ n_cmdlines = 1 /\ win_argv = NoOptions
    /\ spawn_args = [cwd |-> CONF_DEF_CWD, command |-> CONF_DEF_CMD, env |-> <<>>]
    /\ color_scheme = "FORCE_DARK" /\ term_colors = DefaultColors

C9_ConfigBeforeSession ==
    [][IF n_spawned' # n_spawned
       THEN /\ spawn_args'.cwd = (IF cwd' = "" THEN CONF_DEF_CWD ELSE cwd')
            /\ spawn_args'.command = (IF command' = <<>> THEN CONF_DEF_CMD ELSE command')
            /\ spawn_args'.env = env'
            /\ buttons' = actions'
            /\ dark_theme' => color_scheme' = "FORCE_DARK"
            /\ term_colors' = (IF palette' = <<>> THEN DefaultColors
                               ELSE [foreground |-> palette'[1], background |-> palette'[2]])
       ELSE UNCHANGED <<spawn_args, buttons, term_colors, color_scheme>>]_vars
C9_Witness ==
    /\ n_spawned = 1 /\ n_cmdlines = 2 /\ argv # win_argv
    /\ palette # <<>> /\ term_colors = DefaultColors

\* C10: at most one window exists and at most one child is ever spawned.
C10_SingleSession == n_windows <= 1 /\ n_spawned <= 1
C10_Witness ==
    /\ n_windows = 1 /\ n_spawned = 1 /\ n_cmdlines = 2
    /\ Len(actions) = 2 /\ buttons = <<>>

=============================================================================
